---- MODULE Spec2Model ----
(***************************************************************************)
(* Model of the personal-assistant core: the validated Contact / Note      *)
(* data model, ContactsService and NotesService over their in-memory       *)
(* collections, and the FileStore document they persist to.                *)
(*                                                                         *)
(* Python strings are sequences of one-character strings, so that strip(), *)
(* lower(), the regular expressions and strptime/strftime are computed     *)
(* character by character.  An Optional[...] attribute is a sequence of    *)
(* length 0 (None) or 1 (the object).                                      *)
(***************************************************************************)
EXTENDS Integers, Sequences, FiniteSets, TLC

(***************************************************************************)
(* Bounds of the model.                                                    *)
(***************************************************************************)
\* number of service calls in one run (also bounds the ids ever generated)
MaxCalls == 3

(***************************************************************************)
(* Characters and the str methods the code uses.                           *)
(***************************************************************************)
UpperLetters == <<"A","B","C","D","E","F","G","H","I","J","K","L","M",
                  "N","O","P","Q","R","S","T","U","V","W","X","Y","Z">>
LowerLetters == <<"a","b","c","d","e","f","g","h","i","j","k","l","m",
                  "n","o","p","q","r","s","t","u","v","w","x","y","z">>
DigitChars == <<"0","1","2","3","4","5","6","7","8","9">>

Range(f) == {f[i] : i \in DOMAIN f}
Letters == Range(UpperLetters) \cup Range(LowerLetters)
Digits == Range(DigitChars)
Whitespace == {" ", "\t", "\n"}

SetMin(S) == CHOOSE x \in S : \A y \in S : x <= y
SetMax(S) == CHOOSE x \in S : \A y \in S : x >= y

\* str.lower() on one character
LowerChar(c) ==
    IF c \in Range(UpperLetters)
    THEN LowerLetters[CHOOSE i \in DOMAIN UpperLetters : UpperLetters[i] = c]
    ELSE c

\* str.lower()
Lower(s) == [i \in 1..Len(s) |-> LowerChar(s[i])]

\* str.strip(): drop leading and trailing whitespace
Strip(s) ==
    LET keep == {i \in 1..Len(s) : s[i] \notin Whitespace}
    IN  IF keep = {} THEN <<>> ELSE SubSeq(s, SetMin(keep), SetMax(keep))

\* the `in` operator on strings: sub is a contiguous substring of s
Contains(s, sub) ==
    \E i \in 0..(Len(s) - Len(sub)) : SubSeq(s, i + 1, i + Len(sub)) = sub

(***************************************************************************)
(* Values a caller can put in a dict / keyword: the key is missing, the    *)
(* value is None, or the value is a str.                                   *)
(***************************************************************************)
Missing == [k |-> "missing", s |-> <<>>]
NoneV == [k |-> "none", s |-> <<>>]
Str(s) == [k |-> "str", s |-> s]

\* Python truthiness of an Optional[str]
Truthy(v) == v.k = "str" /\ v.s # <<>>

\* dict.get(key): a missing key reads as None
Get(v) == IF v.k = "missing" THEN NoneV ELSE v

(***************************************************************************)
(* src/core/validators.py                                                  *)
(***************************************************************************)
EmailLocalChars == Letters \cup Digits \cup {".", "_", "%", "+", "-"}
EmailDomainChars == Letters \cup Digits \cup {".", "-"}
\* the {2,} of email_pattern: shortest accepted top-level domain
EmailTldMin == 2

\* re.match(email_pattern, s):
\*   ^[a-zA-Z0-9._%+-]+@[a-zA-Z0-9.-]+\.[a-zA-Z]{2,}$
email_pattern(s) ==
    \E at \in 1..Len(s), dot \in 1..Len(s) :
        /\ at >= 2
        /\ s[at] = "@"
        /\ dot >= at + 2
        /\ s[dot] = "."
        /\ Len(s) - dot >= EmailTldMin
        /\ \A i \in 1..(at - 1) : s[i] \in EmailLocalChars
        /\ \A i \in (at + 1)..(dot - 1) : s[i] \in EmailDomainChars
        /\ \A i \in (dot + 1)..Len(s) : s[i] \in Letters

\* is_email(value): TRUE when it returns True, FALSE when it raises
\* InvalidEmailError
is_email(s) == s # <<>> /\ email_pattern(Strip(s))

PhoneFormatChars == Whitespace \cup {"-", "(", ")", "+"}
\* the \d{10} of is_phone
PhoneDigits == 10

NotPhoneFormatChar(c) == c \notin PhoneFormatChars

\* normalize_phone that leaves the plus sign in
normalize_phone_plus(s) ==
    LET Kept(c) == c = "+" \/ c \notin PhoneFormatChars
    IN  SelectSeq(Strip(s), Kept)

\* normalize_phone(value): re.sub(r"[\s\-\(\)\+]", "", value.strip())
normalize_phone(s) == SelectSeq(Strip(s), NotPhoneFormatChar)

\* is_phone(value): TRUE when it returns True, FALSE when it raises
\* InvalidPhoneError
is_phone(s) ==
    LET cleaned == normalize_phone(s)
    IN  /\ s # <<>>
        /\ Len(cleaned) = PhoneDigits
        /\ \A i \in 1..Len(cleaned) : cleaned[i] \in Digits

(***************************************************************************)
(* datetime.strptime / strftime as Birthday uses them.  A date is          *)
(* <<year, month, day>>.                                                   *)
(***************************************************************************)
DigitVal(c) == (CHOOSE i \in DOMAIN DigitChars : DigitChars[i] = c) - 1

IsDigits(s) == \A i \in 1..Len(s) : s[i] \in Digits

RECURSIVE Num(_)
Num(s) == IF s = <<>> THEN 0
          ELSE 10 * Num(SubSeq(s, 1, Len(s) - 1)) + DigitVal(s[Len(s)])

IsLeap(y) == (y % 4 = 0 /\ y % 100 # 0) \/ y % 400 = 0

DaysInMonth(y, m) ==
    IF m = 2 THEN (IF IsLeap(y) THEN 29 ELSE 28)
    ELSE IF m \in {4, 6, 9, 11} THEN 30 ELSE 31

\* %d  ->  3[0-1]|[1-2]\d|0[1-9]|[1-9]| [1-9]
DayToken(t) ==
    \/ Len(t) = 2 /\ IsDigits(t) /\ Num(t) \in 1..31
    \/ Len(t) = 1 /\ IsDigits(t) /\ Num(t) \in 1..9
    \/ Len(t) = 2 /\ t[1] = " " /\ t[2] \in Digits /\ DigitVal(t[2]) \in 1..9

\* %m  ->  1[0-2]|0[1-9]|[1-9]
MonthToken(t) ==
    \/ Len(t) = 2 /\ IsDigits(t) /\ Num(t) \in 1..12
    \/ Len(t) = 1 /\ IsDigits(t) /\ Num(t) \in 1..9

\* %Y  ->  \d\d\d\d
YearToken(t) == Len(t) = 4 /\ IsDigits(t)

TokenNum(t) == IF t[1] = " " THEN Num(Tail(t)) ELSE Num(t)

NoDate == <<0, 0, 0>>

\* datetime.strptime(s, "%d.%m.%Y") when sep = "." and
\* datetime.strptime(s, "%Y-%m-%d") when sep = "-".
\* ok = FALSE stands for the ValueError it raises.
strptime(s, sep) ==
    LET cuts == {i \in 1..Len(s) : s[i] = sep}
    IN  IF Cardinality(cuts) # 2 THEN [ok |-> FALSE, date |-> NoDate]
        ELSE
          LET c1 == SetMin(cuts)
              c2 == SetMax(cuts)
              t1 == SubSeq(s, 1, c1 - 1)
              t2 == SubSeq(s, c1 + 1, c2 - 1)
              t3 == SubSeq(s, c2 + 1, Len(s))
              dt == IF sep = "." THEN t1 ELSE t3
              yt == IF sep = "." THEN t3 ELSE t1
          IN  IF DayToken(dt) /\ MonthToken(t2) /\ YearToken(yt)
                 /\ Num(yt) >= 1
                 /\ TokenNum(dt) <= DaysInMonth(Num(yt), Num(t2))
              THEN [ok |-> TRUE, date |-> <<Num(yt), Num(t2), TokenNum(dt)>>]
              ELSE [ok |-> FALSE, date |-> NoDate]

Digit(n) == DigitChars[n + 1]
TwoDigits(n) == <<Digit(n \div 10), Digit(n % 10)>>
\* %Y of strftime: the C library's, which writes the year without leading
\* zeros (glibc), so a year below 1000 has fewer than four digits
YearDigits(n) ==
    (IF n >= 1000 THEN <<Digit(n \div 1000)>> ELSE <<>>)
    \o (IF n >= 100 THEN <<Digit((n \div 100) % 10)>> ELSE <<>>)
    \o (IF n >= 10 THEN <<Digit((n \div 10) % 10)>> ELSE <<>>)
    \o <<Digit(n % 10)>>

\* date.strftime(default_date_format), default_date_format = "%d.%m.%Y"
strftime(d) == TwoDigits(d[3]) \o <<".">> \o TwoDigits(d[2]) \o <<".">>
               \o YearDigits(d[1])

(***************************************************************************)
(* src/core/utils/dates.py.  date arithmetic on <<year, month, day>>.      *)
(***************************************************************************)
RECURSIVE DaysBeforeMonth(_, _)
\* days of the year y before the first of month m
DaysBeforeMonth(y, m) ==
    IF m = 1 THEN 0 ELSE DaysBeforeMonth(y, m - 1) + DaysInMonth(y, m - 1)

\* date.toordinal(): the days of the proleptic Gregorian calendar up to d
toordinal(d) ==
    LET y == d[1] - 1
    IN  365 * y + (y \div 4) - (y \div 100) + (y \div 400)
        + DaysBeforeMonth(d[1], d[2]) + d[3]

\* date.replace(year=y) raises ValueError for Feb 29 in a non-leap year
ReplaceRaises(d, y) == d[3] > DaysInMonth(y, d[2])

\* `try: birthday.replace(year=y) except ValueError: date(y, 2, 28)`
InYear(birthday, y) ==
    IF ReplaceRaises(birthday, y) THEN <<y, 2, 28>>
    ELSE <<y, birthday[2], birthday[3]>>

\* the day count without the move to next year of a birthday that has
\* passed
ver_birthday_soon_this_year(birthday, today) ==
    toordinal(InYear(birthday, today[1])) - toordinal(today)

\* is_birthday_coming, lines 8-25: (birthday_this_year - today).days,
\* today being date.today()
ver_birthday_soon(birthday, today) ==
    LET this_year == InYear(birthday, today[1])
        birthday_this_year ==
            IF toordinal(this_year) < toordinal(today)
            THEN InYear(birthday, today[1] + 1)
            ELSE this_year
    IN  toordinal(birthday_this_year) - toordinal(today)

\* is_birthday_coming(birthday, days_ahead)
is_birthday_coming(birthday, days_ahead, today) ==
    /\ 0 <= ver_birthday_soon(birthday, today)
    /\ ver_birthday_soon(birthday, today) <= days_ahead

\* datetime.strptime(s, "%d/%m/%Y"), and "%m/%d/%Y" when month_first
strptime_slash(s, month_first) ==
    LET cuts == {i \in 1..Len(s) : s[i] = "/"}
    IN  IF Cardinality(cuts) # 2 THEN [ok |-> FALSE, date |-> NoDate]
        ELSE
          LET c1 == SetMin(cuts)
              c2 == SetMax(cuts)
              t1 == SubSeq(s, 1, c1 - 1)
              t2 == SubSeq(s, c1 + 1, c2 - 1)
              yt == SubSeq(s, c2 + 1, Len(s))
              dt == IF month_first THEN t2 ELSE t1
              mt == IF month_first THEN t1 ELSE t2
          IN  IF DayToken(dt) /\ MonthToken(mt) /\ YearToken(yt)
                 /\ Num(yt) >= 1
                 /\ TokenNum(dt) <= DaysInMonth(Num(yt), Num(mt))
              THEN [ok |-> TRUE, date |-> <<Num(yt), Num(mt), TokenNum(dt)>>]
              ELSE [ok |-> FALSE, date |-> NoDate]

\* parse_birthday: max_age_years
max_age_years == 150

\* parse_birthday, lines 100-113: the first of the four formats that
\* parses the stripped value
FirstFormat(v) ==
    IF strptime(v, ".").ok THEN strptime(v, ".")
    ELSE IF strptime(v, "-").ok THEN strptime(v, "-")
    ELSE IF strptime_slash(v, FALSE).ok THEN strptime_slash(v, FALSE)
    ELSE strptime_slash(v, TRUE)

\* parse_birthday(value), today being the date of datetime.now(): the
\* parsed datetime is a midnight, so it is after now exactly when its
\* date is after today; [ok, date], ok = FALSE for InvalidBirthdayError
parse_birthday(value, today) ==
    LET parsed_date == FirstFormat(Strip(value))
        min_date == <<today[1] - max_age_years, 1, 1>>
    IN  IF value = <<>> \/ ~parsed_date.ok
        THEN [ok |-> FALSE, date |-> NoDate]
        ELSE IF toordinal(parsed_date.date) > toordinal(today)
        THEN [ok |-> FALSE, date |-> NoDate]
        ELSE IF toordinal(parsed_date.date) < toordinal(min_date)
        THEN [ok |-> FALSE, date |-> NoDate]
        ELSE parsed_date

(***************************************************************************)
(* src/core/models/contacts.py: the Field classes.  A constructor returns  *)
(* [err, v]: err = "" and the stored value, or the exception it raises.    *)
(***************************************************************************)
Ok(v) == [err |-> "", v |-> v]
Raise(e, v) == [err |-> e, v |-> v]

\* Name.__init__
NameInit(v) ==
    IF ~Truthy(v) \/ Strip(v.s) = <<>>
    THEN Raise("ValueError", <<>>)
    ELSE Ok(Strip(v.s))

\* Phone.__init__ without the is_phone check
PhoneInit_unchecked(s) ==
    IF Strip(s) = <<>> THEN Raise("ValueError", <<>>)
    ELSE Ok(normalize_phone(s))

\* Phone.__init__ (called with a truthy str)
PhoneInit(s) ==
    IF Strip(s) = <<>> THEN Raise("ValueError", <<>>)
    ELSE IF ~is_phone(Strip(s)) THEN Raise("InvalidPhoneError", <<>>)
    ELSE Ok(normalize_phone(s))

\* Email.__init__ (called with a truthy str)
EmailInit(s) ==
    IF Strip(s) = <<>> THEN Raise("ValueError", <<>>)
    ELSE IF ~is_email(Strip(s)) THEN Raise("InvalidEmailError", <<>>)
    ELSE Ok(Lower(Strip(s)))

\* Address.__init__ (called with a truthy str)
AddressInit(s) == Ok(Strip(s))

\* The value attribute of a Birthday: None, a datetime, or (after patch)
\* a str.
BirthdayNone == [kind |-> "none", date |-> NoDate, text |-> <<>>]
BirthdayDate(d) == [kind |-> "date", date |-> d, text |-> <<>>]
BirthdayStr(s) == [kind |-> "str", date |-> NoDate, text |-> s]

\* Birthday.__init__ (called with a truthy str)
BirthdayInit(s) ==
    LET sep == IF "." \in Range(s) THEN "."
               ELSE IF "-" \in Range(s) THEN "-" ELSE ""
        parsed == strptime(Strip(s), sep)
    IN  IF sep = "" \/ ~parsed.ok
        THEN Raise("ValueError", BirthdayNone)
        ELSE Ok(BirthdayDate(parsed.date))

\* `if self.value` in Birthday.__str__
BirthdayValueTruthy(b) ==
    b.kind = "date" \/ (b.kind = "str" /\ b.text # <<>>)

\* Birthday.__str__ raises AttributeError: a str has no strftime
BirthdayStrRaises(b) == b.kind = "str" /\ b.text # <<>>

\* Birthday.__str__
BirthdayToStr(b) == IF b.kind = "date" THEN strftime(b.date) ELSE <<>>

(***************************************************************************)
(* Contact: [id, name, phone, email, address, birthday]; name is the       *)
(* Name's value, the other four are Optional field objects.                *)
(***************************************************************************)
NoContact == [id |-> 0, name |-> <<>>, phone |-> <<>>, email |-> <<>>,
              address |-> <<>>, birthday |-> <<>>]

\* `Field(x) if x else None` of Contact.__init__, r being Field(x)
OptInit(v, r) == IF Truthy(v) THEN Raise(r.err, <<r.v>>) ELSE Ok(<<>>)

\* Contact.__init__(name, phone, email, address, birthday, contact_id):
\* the fields are built in this order and the first failure propagates
ContactInit(data, id) ==
    LET n == NameInit(Get(data.name))
        p == OptInit(Get(data.phone), PhoneInit(data.phone.s))
        e == OptInit(Get(data.email), EmailInit(data.email.s))
        a == OptInit(Get(data.address), AddressInit(data.address.s))
        b == OptInit(Get(data.birthday), BirthdayInit(data.birthday.s))
    IN  IF n.err # "" THEN Raise(n.err, NoContact)
        ELSE IF p.err # "" THEN Raise(p.err, NoContact)
        ELSE IF e.err # "" THEN Raise(e.err, NoContact)
        ELSE IF a.err # "" THEN Raise(a.err, NoContact)
        ELSE IF b.err # "" THEN Raise(b.err, NoContact)
        ELSE Ok([id |-> id, name |-> n.v, phone |-> p.v, email |-> e.v,
                 address |-> a.v, birthday |-> b.v])

\* Contact.to_dict raises when str(self.birthday) does
ToDictRaises(c) == c.birthday # <<>> /\ BirthdayStrRaises(c.birthday[1])

\* Contact.to_dict: a field object is always truthy, so an Address("") or
\* a Birthday(None) is written as "" and not as null
to_dict(c) ==
    [id |-> c.id,
     name |-> c.name,
     phone |-> c.phone,
     email |-> c.email,
     address |-> c.address,
     birthday |-> IF c.birthday = <<>> THEN <<>>
                  ELSE <<BirthdayToStr(c.birthday[1])>>]

\* a JSON string-or-null read back as an Optional[str]
FromJson(o) == IF o = <<>> THEN NoneV ELSE Str(o[1])

\* Contact.from_dict
from_dict(d) ==
    ContactInit([name |-> Str(d.name), phone |-> FromJson(d.phone),
                 email |-> FromJson(d.email), address |-> FromJson(d.address),
                 birthday |-> FromJson(d.birthday)], d.id)

(***************************************************************************)
(* State.                                                                  *)
(***************************************************************************)
VARIABLES
    contacts,   \* ContactsService._contacts
    notes,      \* NotesService.notes
    disk,       \* the JSON document of the FileStore both services share
    nextId,     \* the next fresh uuid4()
    calls,      \* number of service calls made so far
    last,       \* the last call: operation, arguments, outcome
    result      \* the list the last call returned, <<>> when it returns none

vars == <<contacts, notes, disk, nextId, calls, last, result>>

(***************************************************************************)
(* src/storage/file_store.py                                               *)
(***************************************************************************)
\* save_contacts that writes back the document as it was read
save_contacts_stale(d, cs) ==
    IF \E i \in 1..Len(cs) : ToDictRaises(cs[i])
    THEN Raise("AttributeError", d)
    ELSE Ok(d)

\* FileStore.save_contacts(contacts): read the document, replace its
\* "contacts", write it back.  A to_dict that raises leaves the file as
\* it was.
save_contacts(d, cs) ==
    IF \E i \in 1..Len(cs) : ToDictRaises(cs[i])
    THEN Raise("AttributeError", d)
    ELSE Ok([d EXCEPT !.contacts = [i \in 1..Len(cs) |-> to_dict(cs[i])]])

(***************************************************************************)
(* src/services/contacts_service.py                                        *)
(* An operation returns its outcome: the exception raised ("" when it      *)
(* returns), the collection and the document it leaves, whether it called  *)
(* the store, and the next fresh id.                                       *)
(***************************************************************************)
Outcome(e, cs, d, sv, nid) ==
    [err |-> e, contacts |-> cs, disk |-> d, saved |-> sv, nextId |-> nid]

\* nothing touched: the exception is raised before any mutation
Fail(e) == Outcome(e, contacts, disk, FALSE, nextId)

\* ContactsService._save_contacts after the collection became cs
Saved(cs, nid) ==
    LET w == save_contacts(disk, cs)
    IN  Outcome(w.err, cs, w.v, TRUE, nid)

\* _find_by_id that returns the loop variable when nothing matched
_find_by_id_leaky(id) ==
    LET hit == {i \in 1..Len(contacts) : contacts[i].id = id}
    IN  IF hit = {} THEN Len(contacts) ELSE SetMin(hit)

\* ContactsService._find_by_id: index of the first contact with the id,
\* 0 for None
_find_by_id(id) ==
    LET hit == {i \in 1..Len(contacts) : contacts[i].id = id}
    IN  IF hit = {} THEN 0 ELSE SetMin(hit)

\* _find_by_name comparing the names as they are, case included
_find_by_name_exact(name) ==
    LET hit == {i \in 1..Len(contacts) : contacts[i].name = name}
    IN  IF hit = {} THEN 0 ELSE SetMin(hit)

\* ContactsService._find_by_name: index of the first contact whose name
\* equals name ignoring case, 0 for None
_find_by_name(name) ==
    LET hit == {i \in 1..Len(contacts) :
                   Lower(contacts[i].name) = Lower(name)}
    IN  IF hit = {} THEN 0 ELSE SetMin(hit)

\* add that looks the name up as supplied, without strip()
add_unstripped(data) ==
    IF data.name.k = "none" THEN Fail("AttributeError")
    ELSE
      LET built == ContactInit(data, nextId)
      IN  IF _find_by_name(data.name.s) # 0 THEN Fail("DuplicateContactError")
          ELSE IF built.err # "" THEN Fail(built.err)
          ELSE Saved(Append(contacts, built.v), nextId + 1)

\* ContactsService.add
add(data) ==
    IF data.name.k = "none" THEN Fail("AttributeError")
    ELSE
      LET name == Strip(data.name.s)
          built == ContactInit(data, nextId)
      IN  IF _find_by_name(name) # 0 THEN Fail("DuplicateContactError")
          ELSE IF built.err # "" THEN Fail(built.err)
          ELSE Saved(Append(contacts, built.v), nextId + 1)

\* list.remove(contact)
Remove(seq, index) ==
    [i \in 1..(Len(seq) - 1) |-> IF i < index THEN seq[i] ELSE seq[i + 1]]

\* update that removes the old contact and appends the new one
update_appends(id, data) ==
    LET index == _find_by_id(id) IN
    IF index = 0 THEN Fail("ContactNotFoundError")
    ELSE IF data.name.k = "none" THEN Fail("AttributeError")
    ELSE
      LET existing == _find_by_name(Strip(data.name.s))
          built == ContactInit(data, id)
      IN  IF existing # 0 /\ contacts[existing].id # id
          THEN Fail("DuplicateContactError")
          ELSE IF built.err # "" THEN Fail(built.err)
          ELSE Saved(Append(Remove(contacts, index), built.v), nextId)

\* update that gives the rebuilt contact an id of its own
update_regenerates(id, data) ==
    LET index == _find_by_id(id) IN
    IF index = 0 THEN Fail("ContactNotFoundError")
    ELSE IF data.name.k = "none" THEN Fail("AttributeError")
    ELSE
      LET existing == _find_by_name(Strip(data.name.s))
          built == ContactInit(data, nextId)
      IN  IF existing # 0 /\ contacts[existing].id # id
          THEN Fail("DuplicateContactError")
          ELSE IF built.err # "" THEN Fail(built.err)
          ELSE Saved([contacts EXCEPT ![index] = built.v], nextId + 1)

\* ContactsService.update
update(id, data) ==
    LET index == _find_by_id(id) IN
    IF index = 0 THEN Fail("ContactNotFoundError")
    ELSE IF data.name.k = "none" THEN Fail("AttributeError")
    ELSE
      LET existing == _find_by_name(Strip(data.name.s))
          built == ContactInit(data, id)
      IN  IF existing # 0 /\ contacts[existing].id # id
          THEN Fail("DuplicateContactError")
          ELSE IF built.err # "" THEN Fail(built.err)
          ELSE Saved([contacts EXCEPT ![index] = built.v], nextId)

\* patch, lines 193-194: contact.name.value = updates["name"].strip()
PatchName(r, u) ==
    IF r.err # "" \/ u.name.k = "missing" THEN r
    ELSE Ok([r.v EXCEPT !.name = Strip(u.name.s)])

\* patch, lines 196-200: the value is assigned as given, and assigning to
\* .value of an absent (None) phone raises AttributeError
PatchPhone(r, u) ==
    IF r.err # "" \/ u.phone.k = "missing" THEN r
    ELSE IF ~Truthy(u.phone) THEN Ok([r.v EXCEPT !.phone = <<>>])
    ELSE IF r.v.phone = <<>> THEN Raise("AttributeError", r.v)
    ELSE Ok([r.v EXCEPT !.phone = <<Strip(u.phone.s)>>])

\* patch, lines 202-206
PatchEmail(r, u) ==
    IF r.err # "" \/ u.email.k = "missing" THEN r
    ELSE IF ~Truthy(u.email) THEN Ok([r.v EXCEPT !.email = <<>>])
    ELSE IF r.v.email = <<>> THEN Raise("AttributeError", r.v)
    ELSE Ok([r.v EXCEPT !.email = <<Strip(u.email.s)>>])

\* patch, lines 208-209: None.strip() and None.value both raise
\* AttributeError
PatchAddress(r, u) ==
    IF r.err # "" \/ u.address.k = "missing" THEN r
    ELSE IF u.address.k = "none" \/ r.v.address = <<>>
    THEN Raise("AttributeError", r.v)
    ELSE Ok([r.v EXCEPT !.address = <<Strip(u.address.s)>>])

\* patch, lines 211-215: the Birthday keeps the str it is given
PatchBirthday(r, u) ==
    IF r.err # "" \/ u.birthday.k = "missing" THEN r
    ELSE IF r.v.birthday = <<>> THEN Raise("AttributeError", r.v)
    ELSE IF Truthy(u.birthday)
    THEN Ok([r.v EXCEPT !.birthday = <<BirthdayStr(Strip(u.birthday.s))>>])
    ELSE Ok([r.v EXCEPT !.birthday = <<BirthdayNone>>])

\* ContactsService.patch: the contact object is modified in place, field
\* by field, so a failure half way leaves the earlier assignments
patch(id, u) ==
    LET index == _find_by_id(id) IN
    IF index = 0 THEN Fail("ContactNotFoundError")
    ELSE IF u.name.k = "none" THEN Fail("AttributeError")
    ELSE
      LET existing == IF u.name.k = "missing" THEN 0
                      ELSE _find_by_name(Strip(u.name.s))
          r == PatchBirthday(PatchAddress(PatchEmail(PatchPhone(
                   PatchName(Ok(contacts[index]), u), u), u), u), u)
          cs == [contacts EXCEPT ![index] = r.v]
      IN  IF existing # 0 /\ contacts[existing].id # id
          THEN Fail("DuplicateContactError")
          ELSE IF r.err # ""
          THEN Outcome(r.err, cs, disk, FALSE, nextId)
          ELSE Saved(cs, nextId)

\* delete that removes the last contact of the list
delete_last(id) ==
    LET index == _find_by_id(id) IN
    IF index = 0 THEN Fail("ContactNotFoundError")
    ELSE Saved(Remove(contacts, Len(contacts)), nextId)

\* ContactsService.delete
delete(id) ==
    LET index == _find_by_id(id) IN
    IF index = 0 THEN Fail("ContactNotFoundError")
    ELSE Saved(Remove(contacts, index), nextId)

\* get_all that hands out the service's own list
get_all_live == [live |-> TRUE, items |-> contacts]

\* ContactsService.get_all: self._contacts.copy(), a new list (live is
\* FALSE: it is not the list the service keeps) of the same contacts
get_all == [live |-> FALSE, items |-> contacts]

\* ContactsService.get_by_id: <<>> for None
get_by_id(id) ==
    IF _find_by_id(id) = 0 THEN <<>> ELSE <<contacts[_find_by_id(id)]>>

\* search, lines 275-285: the general query is in the name or in one of
\* the optional fields the contact has
QueryMatches(c, query) ==
    \/ Contains(Lower(c.name), Lower(query))
    \/ (c.phone # <<>> /\ Contains(Lower(c.phone[1]), Lower(query)))
    \/ (c.email # <<>> /\ Contains(Lower(c.email[1]), Lower(query)))
    \/ (c.address # <<>> /\ Contains(Lower(c.address[1]), Lower(query)))

\* search, lines 288-302: match stays True unless a supplied filter is not
\* in the field; the phone and email tests are skipped when the contact
\* has no phone or email, and the phone filter is not lower-cased
FiltersMatch(c, name, phone, email) ==
    /\ ~(Truthy(name) /\ ~Contains(Lower(c.name), Lower(name.s)))
    /\ ~(Truthy(phone) /\ c.phone # <<>>
           /\ ~Contains(Lower(c.phone[1]), phone.s))
    /\ ~(Truthy(email) /\ c.email # <<>>
           /\ ~Contains(Lower(c.email[1]), Lower(email.s)))

\* the loop body without the continue after a query match
Matched_no_continue(c, query, name, phone, email) ==
    (IF Truthy(query) /\ QueryMatches(c, query.s) THEN <<c>> ELSE <<>>)
    \o (IF FiltersMatch(c, name, phone, email)
           /\ (Truthy(name) \/ Truthy(phone) \/ Truthy(email))
        THEN <<c>> ELSE <<>>)

\* search, the loop body: what one contact appends to results
Matched(c, query, name, phone, email) ==
    IF Truthy(query) /\ QueryMatches(c, query.s) THEN <<c>>
    ELSE IF FiltersMatch(c, name, phone, email)
            /\ (Truthy(name) \/ Truthy(phone) \/ Truthy(email))
    THEN <<c>>
    ELSE <<>>

RECURSIVE SearchIn(_, _, _, _, _)
\* search, the loop over the first contacts of cs
SearchIn(cs, query, name, phone, email) ==
    IF cs = <<>> THEN <<>>
    ELSE SearchIn(SubSeq(cs, 1, Len(cs) - 1), query, name, phone, email)
         \o Matched(cs[Len(cs)], query, name, phone, email)

\* ContactsService.search
search(query, name, phone, email) ==
    SearchIn(contacts, query, name, phone, email)

(***************************************************************************)
(* src/core/models/notes.py and src/services/notes_service.py.             *)
(* A Note is [id, text, tags]: the Text's content and the Tags' names.     *)
(***************************************************************************)
\* Text.__init__ without the emptiness test
TextInit_unchecked(s) == Ok(Strip(s))

\* Text.__init__
TextInit(s) == IF Strip(s) = <<>> THEN Raise("ValueError", <<>>)
               ELSE Ok(Strip(s))

\* Tag.__init__ over a list of names
TagsInit(ts) == [i \in 1..Len(ts) |-> Strip(ts[i])]

\* Note.to_dict
note_to_dict(n) == [id |-> n.id, text |-> n.text, tags |-> n.tags]

\* save_notes that writes a document holding the notes alone
save_notes_alone(d, ns) ==
    [contacts |-> <<>>, notes |-> [i \in 1..Len(ns) |-> note_to_dict(ns[i])]]

\* FileStore.save_notes(notes)
save_notes(d, ns) ==
    [d EXCEPT !.notes = [i \in 1..Len(ns) |-> note_to_dict(ns[i])]]

\* NotesService.find: index of the first note with the id, 0 for None
find(id) ==
    LET hit == {i \in 1..Len(notes) : notes[i].id = id}
    IN  IF hit = {} THEN 0 ELSE SetMin(hit)

NotesOutcome(e, ns, d, sv) ==
    [err |-> e, notes |-> ns, disk |-> d, saved |-> sv]

\* NotesService.add(Note(text=Text(text), tags=[Tag(t) ...]))
notes_add(text, tags) ==
    LET ns == Append(notes, [id |-> nextId, text |-> TextInit(text).v,
                             tags |-> TagsInit(tags)])
    IN  NotesOutcome("", ns, save_notes(disk, ns), TRUE)

\* update with kwargs.get("tags", []): tags that are not passed are reset
notes_update_resets(id, text, tags) ==
    LET index == find(id) IN
    IF index = 0 THEN NotesOutcome("ValueError", notes, disk, FALSE)
    ELSE
      LET old == notes[index]
          new == [id |-> old.id,
                  text |-> IF text = <<>> THEN old.text
                           ELSE TextInit(text[1]).v,
                  tags |-> IF tags = <<>> THEN <<>>
                           ELSE TagsInit(tags[1])]
          ns == [notes EXCEPT ![index] = new]
      IN  NotesOutcome("", ns, save_notes(disk, ns), TRUE)

\* NotesService.update(note_id, **kwargs): text and tags are <<>> when the
\* keyword is not passed, <<Text>> and <<[Tag ...]>> when it is
notes_update(id, text, tags) ==
    LET index == find(id) IN
    IF index = 0 THEN NotesOutcome("ValueError", notes, disk, FALSE)
    ELSE
      LET old == notes[index]
          new == [id |-> old.id,
                  text |-> IF text = <<>> THEN old.text
                           ELSE TextInit(text[1]).v,
                  tags |-> IF tags = <<>> THEN old.tags
                           ELSE TagsInit(tags[1])]
          ns == [notes EXCEPT ![index] = new]
      IN  NotesOutcome("", ns, save_notes(disk, ns), TRUE)

\* NotesService.delete
notes_delete(id) ==
    LET index == find(id) IN
    IF index = 0 THEN NotesOutcome("ValueError", notes, disk, FALSE)
    ELSE LET ns == Remove(notes, index)
         IN  NotesOutcome("", ns, save_notes(disk, ns), TRUE)

\* find_by_tags comparing the tags as they are, case included
find_by_tags_exact(tags, text) ==
    LET Tagged(n) == \E i \in 1..Len(tags[1]), j \in 1..Len(n.tags) :
                        tags[1][i] = n.tags[j]
        HasText(n) == Contains(Lower(n.text), Lower(text.s))
        results == IF tags # <<>> /\ tags[1] # <<>>
                   THEN SelectSeq(notes, Tagged) ELSE notes
    IN  IF Truthy(text) THEN SelectSeq(results, HasText) ELSE results

\* NotesService.find_by_tags(tags, text): tags is <<>> for None and
\* <<list>> otherwise, text is None or a str
find_by_tags(tags, text) ==
    LET Tagged(n) == \E i \in 1..Len(tags[1]), j \in 1..Len(n.tags) :
                        Lower(tags[1][i]) = Lower(n.tags[j])
        HasText(n) == Contains(Lower(n.text), Lower(text.s))
        results == IF tags # <<>> /\ tags[1] # <<>>
                   THEN SelectSeq(notes, Tagged) ELSE notes
    IN  IF Truthy(text) THEN SelectSeq(results, HasText) ELSE results

(***************************************************************************)
(* src/commands/notes_cmd.py.  A handler returns a message; err is "" for  *)
(* the success message, "EmptyText" for add_note's own error message and   *)
(* the exception caught for the others.  A note id below 0 is a string     *)
(* that is no UUID.                                                        *)
(***************************************************************************)
\* NotesCommand.add_note(text, tags)
add_note(text, tags) ==
    IF ~Truthy(text) \/ Strip(text.s) = <<>>
    THEN NotesOutcome("EmptyText", notes, disk, FALSE)
    ELSE notes_add(Strip(text.s), IF tags = <<>> THEN <<>> ELSE tags[1])

\* NotesCommand.edit_note(note_id, new_text, new_tags)
edit_note(note_id, new_text, new_tags) ==
    IF note_id < 0 THEN NotesOutcome("ValueError", notes, disk, FALSE)
    ELSE IF new_text.k = "str" /\ TextInit(new_text.s).err # ""
    THEN NotesOutcome(TextInit(new_text.s).err, notes, disk, FALSE)
    ELSE notes_update(note_id,
                      IF new_text.k = "str" THEN <<new_text.s>> ELSE <<>>,
                      new_tags)

\* NotesCommand.delete_note(note_id)
delete_note(note_id) ==
    IF note_id < 0 THEN NotesOutcome("ValueError", notes, disk, FALSE)
    ELSE notes_delete(note_id)

\* Note.from_dict
note_from_dict(d) ==
    LET t == TextInit(d.text)
    IN  Raise(t.err, [id |-> d.id, text |-> t.v, tags |-> TagsInit(d.tags)])

RECURSIVE LoadContacts(_)
\* FileStore.load, lines 91-97: records whose from_dict raises are skipped
LoadContacts(items) ==
    IF items = <<>> THEN <<>>
    ELSE LET r == from_dict(items[Len(items)])
         IN  LoadContacts(SubSeq(items, 1, Len(items) - 1))
             \o (IF r.err = "" THEN <<r.v>> ELSE <<>>)

RECURSIVE LoadNotes(_)
\* FileStore.load, lines 99-105
LoadNotes(items) ==
    IF items = <<>> THEN <<>>
    ELSE LET r == note_from_dict(items[Len(items)])
         IN  LoadNotes(SubSeq(items, 1, Len(items) - 1))
             \o (IF r.err = "" THEN <<r.v>> ELSE <<>>)

\* FileStore.load: the tuple (contacts, notes)
load(d) == <<LoadContacts(d.contacts), LoadNotes(d.notes)>>

(***************************************************************************)
(* src/commands/contacts_cmd.py, src/commands/search_cmd.py and the        *)
(* command loop of src/main.py.                                            *)
(***************************************************************************)
\* what `except Exception` does not catch
NotExceptions == {"KeyboardInterrupt", "SystemExit"}

\* a handler whose body is not inside a try
Handled_bare(e) ==
    [text |-> IF e = "" THEN "message" ELSE "", raised |-> e]

\* try: <body> except Exception as e: return f"Error ...: {str(e)}", for
\* a body that raises e ("" when it reaches its return): the string
\* returned and the exception that leaves the handler
Handled(e) ==
    IF e = "" THEN [text |-> "message", raised |-> ""]
    ELSE IF e \in NotExceptions THEN [text |-> "", raised |-> e]
    ELSE [text |-> "Error", raised |-> ""]

\* main, lines 20-116: print(handler(...)) inside try / except
\* KeyboardInterrupt / except Exception, then the next pass of the
\* while loop: what was printed and where the loop is
main(h) ==
    [printed |-> IF h.raised = "" THEN h.text ELSE "Error",
     loop |-> IF h.raised = "SystemExit" THEN "left" ELSE "prompt"]

\* the loops over contacts in search_contacts, list_contacts and
\* global_search: f"{contact.birthday}" raises for a Birthday holding a str
ContactInfoRaises(cs) ==
    \E i \in 1..Len(cs) :
        cs[i].birthday # <<>> /\ BirthdayStrRaises(cs[i].birthday[1])

\* ContactsCommand.add_contact: contact_data has all five keys
add_contact(data) == add(data)

\* ContactsCommand.edit_contact(contact_id, **kwargs): an id below 0 is a
\* string UUID() rejects
edit_contact(contact_id, kwargs) ==
    IF contact_id < 0 THEN Fail("ValueError") ELSE patch(contact_id, kwargs)

\* ContactsCommand.delete_contact: "NotFound" is the handler's own error
\* message for an id get_by_id does not find
delete_contact(contact_id) ==
    IF contact_id < 0 THEN Fail("ValueError")
    ELSE IF get_by_id(contact_id) = <<>> THEN Fail("NotFound")
    ELSE delete(contact_id)

\* ContactsCommand.search_contacts(query): the exception of its body
search_contacts(query) ==
    IF ContactInfoRaises(search(Str(query), NoneV, NoneV, NoneV))
    THEN "AttributeError" ELSE ""

\* ContactsCommand.list_contacts: the exception of its body
list_contacts ==
    IF ContactInfoRaises(get_all.items) THEN "AttributeError" ELSE ""

\* NotesCommand.search_notes(query): the notes its message lists; Text
\* has __len__ and __getitem__, so the loop over them raises nothing
search_notes(query) == find_by_tags(<<>>, Str(query))

\* NotesCommand.list_notes: the notes its message lists
list_notes == notes

\* SearchService.search_all(query): the contacts whose fields contain the
\* query and the notes whose text contains it, keyed by kind
search_all(query) ==
    [contacts |-> search(Str(query), NoneV, NoneV, NoneV),
     notes |-> find_by_tags(<<>>, Str(query))]

\* global_search that asks the service whatever the query is
global_search_unchecked(query) ==
    LET results == search_all(Strip(Get(query).s))
    IN  [err |-> IF ContactInfoRaises(results.contacts)
                 THEN "AttributeError" ELSE "",
         searched |-> TRUE, found |-> results]

\* SearchCommand.global_search(query): "EmptyQuery" is its own error
\* message, returned before the service is called; searched tells
\* whether search_all was called
global_search(query) ==
    IF ~Truthy(query) \/ Strip(query.s) = <<>>
    THEN [err |-> "EmptyQuery", searched |-> FALSE,
          found |-> [contacts |-> <<>>, notes |-> <<>>]]
    ELSE LET results == search_all(Strip(query.s))
         IN  [err |-> IF ContactInfoRaises(results.contacts)
                      THEN "AttributeError" ELSE "",
              searched |-> TRUE, found |-> results]

(***************************************************************************)
(* src/services/birthday_service.py                                        *)
(***************************************************************************)
\* BirthdayService.get_upcoming_birthdays: the loop runs over what
\* store.load() returns, which is the tuple (contacts, notes), so the
\* first `contact` is the list of contacts and contact.get("birthday")
\* raises AttributeError before is_birthday_coming is reached
get_upcoming_birthdays(days_ahead) ==
    LET loaded == load(disk)
    IN  IF Len(loaded) = 0 THEN Ok(<<>>) ELSE Raise("AttributeError", <<>>)

(***************************************************************************)
(* The arguments the calls are made with.                                  *)
(***************************************************************************)
Ann == <<"A","n","n">>
AnnLowerSp == <<"a","n","n"," ">>
Bob == <<"B","o","b">>
Blank == <<" ">>
PhoneFormatted == <<"(","0","5","0",")"," ","1","2","3","-","4","5","-","6","7">>
PhonePlain == <<"0","5","0","9","9","9","8","8","7","7">>
PhoneShort == <<"1","2","3">>
EmailMixed == <<" ","A","n","n","@","M","a","i","l",".","C","O","M"," ">>
EmailBob == <<"B","o","b","@","x",".","o","r","g">>
EmailNoTld == <<"a","n","n","@","m","a","i","l">>
AddrKyiv == <<"K","y","i","v"," ">>
AddrLviv == <<"L","v","i","v">>
BdayLeap == <<"2","9",".","0","2",".","2","0","0","0">>
BdayIso == <<"2","0","0","1","-","0","3","-","0","4">>
BdayNoSuchDay == <<"3","1",".","0","2",".","2","0","0","1">>

Data(n, p, e, a, b) ==
    [name |-> n, phone |-> p, email |-> e, address |-> a, birthday |-> b]

NoData == Data(Missing, Missing, Missing, Missing, Missing)

Bare(n) == Data(n, NoneV, NoneV, NoneV, NoneV)

Full(n) == Data(Str(n), Str(PhoneFormatted), Str(EmailMixed), Str(AddrKyiv),
                Str(BdayLeap))

\* contact_data of add and update
ContactData ==
    {Bare(n) : n \in {Missing, NoneV, Str(Ann), Str(AnnLowerSp), Str(Bob),
                      Str(Blank)}}
    \cup {Full(Ann), Full(Bob)}
    \cup {Data(Str(Bob), Str(PhoneShort), NoneV, NoneV, NoneV),
          Data(Str(Bob), NoneV, Str(EmailNoTld), NoneV, NoneV),
          Data(Str(Bob), NoneV, NoneV, Str(Blank), NoneV),
          Data(Str(Bob), NoneV, NoneV, NoneV, Str(BdayNoSuchDay))}

Only(field, v) == [NoData EXCEPT ![field] = v]

\* updates of patch
Updates ==
    {NoData}
    \cup {Only("name", v) : v \in {NoneV, Str(Ann), Str(AnnLowerSp),
                                   Str(Bob), Str(Blank)}}
    \cup {Only("phone", v) : v \in {NoneV, Str(PhonePlain), Str(PhoneShort)}}
    \cup {Only("email", v) : v \in {NoneV, Str(EmailBob), Str(EmailNoTld)}}
    \cup {Only("address", v) : v \in {NoneV, Str(<<>>), Str(AddrLviv)}}
    \cup {Only("birthday", v) : v \in {NoneV, Str(BdayIso),
                                       Str(BdayNoSuchDay), Str(Blank)}}
    \cup {[Only("name", Str(Bob)) EXCEPT !.phone = Str(PhonePlain)],
          [Only("name", Str(Bob)) EXCEPT !.birthday = Str(BdayIso)],
          [Only("phone", Str(PhonePlain)) EXCEPT !.address = Str(AddrLviv)]}

\* an id that was never generated, and every id generated so far
Ids == 0..(nextId - 1)

Work == <<"w","o","r","k">>
NoteTexts == {<<"h","i">>, <<" ","T","o"," ","d","o"," ">>}
NoteTags == {<<>>, <<Work>>}

(***************************************************************************)
(* Specification: one action per service call.                             *)
(***************************************************************************)
Call(op, id, data, text, tags, err, saved) ==
    [op |-> op, id |-> id, data |-> data, text |-> text, tags |-> tags,
     err |-> err, saved |-> saved]

Init ==
    /\ contacts = <<>>
    /\ notes = <<>>
    /\ disk = [contacts |-> <<>>, notes |-> <<>>]
    /\ nextId = 1
    /\ calls = 0
    /\ last = Call("init", 0, NoData, <<>>, <<>>, "", FALSE)
    /\ result = <<>>

ContactsCall(op, id, data, o) ==
    /\ calls < MaxCalls
    /\ calls' = calls + 1
    /\ contacts' = o.contacts
    /\ disk' = o.disk
    /\ nextId' = o.nextId
    /\ last' = Call(op, id, data, <<>>, <<>>, o.err, o.saved)
    /\ result' = <<>>
    /\ UNCHANGED notes

Add == \E data \in ContactData : ContactsCall("add", 0, data, add(data))

Update ==
    \E id \in Ids, data \in ContactData :
        ContactsCall("update", id, data, update(id, data))

Patch ==
    \E id \in Ids, u \in Updates : ContactsCall("patch", id, u, patch(id, u))

Delete == \E id \in Ids : ContactsCall("delete", id, NoData, delete(id))

NotesCall(op, id, text, tags, o, nid) ==
    /\ calls < MaxCalls
    /\ calls' = calls + 1
    /\ notes' = o.notes
    /\ disk' = o.disk
    /\ nextId' = nid
    /\ last' = Call(op, id, NoData, text, tags, o.err, o.saved)
    /\ result' = <<>>
    /\ UNCHANGED contacts

NotesAdd ==
    \E text \in NoteTexts, tags \in NoteTags :
        NotesCall("notes_add", 0, <<text>>, <<tags>>, notes_add(text, tags),
                  nextId + 1)

NotesUpdate ==
    \E id \in Ids, text \in {<<>>} \cup {<<x>> : x \in NoteTexts},
       tags \in {<<>>} \cup {<<x>> : x \in NoteTags} :
        NotesCall("notes_update", id, text, tags,
                  notes_update(id, text, tags), nextId)

NotesDelete ==
    \E id \in Ids :
        NotesCall("notes_delete", id, <<>>, <<>>, notes_delete(id), nextId)

Next ==
    \/ Add
    \/ Update
    \/ Patch
    \/ Delete
    \/ NotesAdd
    \/ NotesUpdate
    \/ NotesDelete

Spec == Init /\ [][Next]_vars

(***************************************************************************)
(* Specification of the contact search: contacts are added and searched.   *)
(***************************************************************************)
SearchArgs(query, name, phone, email) ==
    [query |-> query, name |-> name, phone |-> phone, email |-> email]

Queries == {NoneV, Str(<<>>), Str(<<"A","N">>), Str(<<"0","5","0">>),
            Str(<<"k","y">>)}
NameFilters == {NoneV, Str(<<"A","N">>), Str(<<"b">>)}
PhoneFilters == {NoneV, Str(<<"0","5","0">>)}
EmailFilters == {NoneV, Str(<<"M","A","I","L">>)}

Search ==
    \E query \in Queries, name \in NameFilters, phone \in PhoneFilters,
       email \in EmailFilters :
        /\ calls < MaxCalls
        /\ calls' = calls + 1
        /\ last' = Call("search", 0, SearchArgs(query, name, phone, email),
                        <<>>, <<>>, "", FALSE)
        /\ result' = search(query, name, phone, email)
        /\ UNCHANGED <<contacts, notes, disk, nextId>>

SearchNext ==
    \/ Add
    \/ Search

SearchSpec == Init /\ [][SearchNext]_vars

(***************************************************************************)
(* Specification of the notes commands: notes are added, edited, deleted   *)
(* and looked up through NotesCommand and NotesService.find_by_tags.       *)
(***************************************************************************)
ToDo == <<" ","T","o"," ","d","o"," ">>
Hi == <<"h","i">>
WorkCap == <<"W","o","r","k">>
Home == <<"h","o","m","e">>

\* text of add_note and new_text of edit_note
CmdTexts == {NoneV, Str(<<>>), Str(Blank), Str(ToDo), Str(Hi)}

\* tags of add_note and new_tags of edit_note
CmdTags == {<<>>, <<<<>>>>, <<<<WorkCap>>>>, <<<<Home>>>>}

\* note_id of edit_note and delete_note: no UUID, an unknown UUID, and
\* every id generated so far
CmdIds == {-1} \cup Ids

\* tags and text of find_by_tags
TagQueries == {<<>>, <<<<>>>>, <<<<Work>>>>, <<<<Home, Work>>>>}
TextQueries == {NoneV, Str(<<>>), Str(<<"D","O">>), Str(Hi)}

AddNote ==
    \E text \in CmdTexts, tags \in CmdTags :
        LET o == add_note(text, tags)
        IN  NotesCall("add_note", 0, text, tags, o,
                      IF o.err = "" THEN nextId + 1 ELSE nextId)

EditNote ==
    \E id \in CmdIds, text \in CmdTexts, tags \in CmdTags :
        NotesCall("edit_note", id, text, tags, edit_note(id, text, tags),
                  nextId)

DeleteNote ==
    \E id \in CmdIds :
        NotesCall("delete_note", id, NoneV, <<>>, delete_note(id), nextId)

FindByTags ==
    \E tags \in TagQueries, text \in TextQueries :
        /\ calls < MaxCalls
        /\ calls' = calls + 1
        /\ last' = Call("find_by_tags", 0, NoData, text, tags, "", FALSE)
        /\ result' = find_by_tags(tags, text)
        /\ UNCHANGED <<contacts, notes, disk, nextId>>

NotesNext ==
    \/ AddNote
    \/ EditNote
    \/ DeleteNote
    \/ FindByTags

NotesSpec == Init /\ [][NotesNext]_vars

(***************************************************************************)
(* Specification of the birthday lookahead: contacts are added, the        *)
(* service is asked for the upcoming birthdays, is_birthday_coming is      *)
(* applied to a date.                                                      *)
(***************************************************************************)
\* config/constants.py: maximum allowed days lookahead
BIRTHDAYS_MAX_DAYS == 365

\* date.today() at the call
Todays == {<<2027, 2, 27>>, <<2027, 3, 1>>, <<2027, 12, 31>>, <<2028, 2, 28>>}

Birthdays == {<<2000, 2, 29>>, <<2001, 3, 4>>, <<2000, 1, 1>>}

DaysAhead == {-1, 1, 2, BIRTHDAYS_MAX_DAYS, BIRTHDAYS_MAX_DAYS + 1}

LookaheadArgs(birthday, days_ahead, today) ==
    [birthday |-> birthday, days_ahead |-> days_ahead, today |-> today]

Upcoming ==
    \E days_ahead \in DaysAhead, today \in Todays :
        LET o == get_upcoming_birthdays(days_ahead) IN
        /\ calls < MaxCalls
        /\ calls' = calls + 1
        /\ last' = Call("upcoming", 0,
                        LookaheadArgs(<<>>, days_ahead, today),
                        <<>>, <<>>, o.err, FALSE)
        /\ result' = o.v
        /\ UNCHANGED <<contacts, notes, disk, nextId>>

IsBirthdayComing ==
    \E birthday \in Birthdays, days_ahead \in DaysAhead, today \in Todays :
        /\ calls < MaxCalls
        /\ calls' = calls + 1
        /\ last' = Call("is_birthday_coming", 0,
                        LookaheadArgs(birthday, days_ahead, today),
                        <<>>, <<>>, "", FALSE)
        /\ result' = <<is_birthday_coming(birthday, days_ahead, today)>>
        /\ UNCHANGED <<contacts, notes, disk, nextId>>

BirthdayNext ==
    \/ Add
    \/ Upcoming
    \/ IsBirthdayComing

BirthdaySpec == Init /\ [][BirthdayNext]_vars

(***************************************************************************)
(* Specification of the pure functions: the initial state holds one call   *)
(* with its arguments, and the one step applies the function to them.      *)
(***************************************************************************)
BdayOld == <<"0","1",".","0","1",".","0","9","9","9">>

\* the keyword arguments a Contact can be constructed from
ContactKwargs ==
    {d \in ContactData
           \cup {Data(Str(Bob), NoneV, NoneV, NoneV, Str(BdayIso)),
                 Data(Str(Bob), NoneV, NoneV, NoneV, Str(BdayOld)),
                 Data(Str(Bob), NoneV, NoneV, Str(AddrKyiv), NoneV)} :
        d.name.k # "missing" /\ ContactInit(d, 1).err = ""}

PureCall(op, data, text, tags) == Call(op, 0, data, text, tags, "", FALSE)

\* the strings an Email is constructed from
EmailArgs ==
    {<<>>, Blank, EmailMixed, EmailBob, EmailNoTld,
     <<"a","@","b",".","c">>,
     <<"a","@","b",".","c","o">>,
     <<"a","@","b",".","m","u","s","e","u","m">>,
     <<"a","@","b",".","n","e","t","w","o","r","k">>,
     <<"@","b",".","c","o">>,
     <<"a"," ","b","@","c",".","d","e">>,
     <<"a","@","b",".","c","0","m">>}

\* the most formatting characters put into a phone number
MaxSeps == 2

PhoneSeps == {" ", "-", "(", ")", "+"}

\* s with c put in after its first i characters
InsertAt(s, i, c) == SubSeq(s, 1, i) \o <<c>> \o SubSeq(s, i + 1, Len(s))

\* base with at most n formatting characters put in, anywhere
RECURSIVE WithSeps(_, _)
WithSeps(base, n) ==
    IF n = 0 THEN {base}
    ELSE LET fewer == WithSeps(base, n - 1)
         IN  fewer \cup UNION {{InsertAt(s, i, c) :
                                    i \in 0..Len(s), c \in PhoneSeps} :
                                s \in fewer}

\* strings is_phone rejects, and a number in its usual formatting
OtherPhones == {PhoneFormatted, PhoneShort, PhonePlain \o <<"1">>, Blank}

\* the day datetime.now() falls on at the call of parse_birthday
Nows == {<<2026, 11, 2>>, <<2028, 2, 29>>}

\* the strings parse_birthday is called with
BirthdayArgs ==
    {Blank, BdayLeap, BdayIso, BdayNoSuchDay, BdayOld,
     <<"0","2",".","1","1",".","2","0","2","6">>,
     <<"0","3",".","1","1",".","2","0","2","6">>,
     <<"0","2",".","1","1",".","1","8","7","6">>,
     <<"0","1",".","1","1",".","1","8","7","6">>,
     <<"0","1",".","0","1",".","1","8","7","6">>,
     <<"3","1",".","1","2",".","1","8","7","5">>,
     <<"0","4","/","0","3","/","2","0","0","1">>,
     <<"1","2","/","3","1","/","2","0","0","0">>,
     <<"2","9",".","0","2",".","1","8","7","8">>,
     <<"2","8",".","0","2",".","1","8","7","8">>,
     <<"0","1",".","0","3",".","2","0","2","8">>}

\* every day of year y
DaysOf(y) ==
    UNION {{<<y, m, d>> : d \in 1..DaysInMonth(y, m)} : m \in 1..12}

\* the birthdays and the days date.today() falls on: a leap year of
\* birthdays, a common and a leap year of todays
AllBirthdays == DaysOf(2000)
AllTodays == DaysOf(2027) \cup DaysOf(2028)

PureInit ==
    /\ contacts = <<>>
    /\ notes = <<>>
    /\ disk = [contacts |-> <<>>, notes |-> <<>>]
    /\ nextId = 1
    /\ calls = 0
    /\ \/ \E d \in ContactKwargs : last = PureCall("Contact", d, <<>>, <<>>)
       \/ \E text \in {ToDo, Hi}, tags \in {<<>>, <<WorkCap, Blank>>} :
              last = PureCall("Note", NoData, text, tags)
       \/ \E value \in EmailArgs :
              last = PureCall("Email", NoData, value, <<>>)
       \/ \E value \in WithSeps(PhonePlain, MaxSeps) \cup OtherPhones :
              last = PureCall("is_phone", NoData, value, <<>>)
       \/ \E value \in BirthdayArgs, today \in Nows :
              last = PureCall("parse_birthday",
                              LookaheadArgs(<<>>, 0, today), value, <<>>)
       \/ \E birthday \in AllBirthdays, today \in AllTodays :
              last = PureCall("ver_birthday_soon",
                              LookaheadArgs(birthday, BIRTHDAYS_MAX_DAYS,
                                            today),
                              <<>>, <<>>)
    /\ result = <<>>

\* the function of last.op is applied once, with r what it returns
Apply(op, r) ==
    /\ calls = 0
    /\ last.op = op
    /\ calls' = 1
    /\ result' = r
    /\ UNCHANGED <<contacts, notes, disk, nextId, last>>

\* x = Contact(**kwargs); x.to_dict(); Contact.from_dict(x.to_dict())
ContactRoundTrip ==
    LET x == ContactInit(last.data, nextId).v
    IN  Apply("Contact", <<to_dict(x), from_dict(to_dict(x))>>)

\* x = Note(Text(text), [Tag(t) ...]); x.to_dict(); Note.from_dict(...)
NoteRoundTrip ==
    LET x == [id |-> nextId, text |-> TextInit(last.text).v,
              tags |-> TagsInit(last.tags)]
    IN  Apply("Note", <<note_to_dict(x), note_from_dict(note_to_dict(x))>>)

\* is_email(value) and Email(value)
EmailValidate ==
    Apply("Email", <<is_email(last.text), EmailInit(last.text)>>)

\* is_phone(value), normalize_phone(value) and normalize_phone of that
PhoneValidate ==
    Apply("is_phone", <<is_phone(last.text), normalize_phone(last.text),
                        normalize_phone(normalize_phone(last.text))>>)

\* parse_birthday(value) on the day last.data.today
ParseBirthday ==
    Apply("parse_birthday", <<parse_birthday(last.text, last.data.today)>>)

\* the day offset of is_birthday_coming, and what it returns for
\* days_ahead = BIRTHDAYS_MAX_DAYS
DayOffset ==
    Apply("ver_birthday_soon",
          <<ver_birthday_soon(last.data.birthday, last.data.today),
            is_birthday_coming(last.data.birthday, last.data.days_ahead,
                               last.data.today)>>)

PureNext ==
    \/ ContactRoundTrip
    \/ NoteRoundTrip
    \/ EmailValidate
    \/ PhoneValidate
    \/ ParseBirthday
    \/ DayOffset

PureSpec == PureInit /\ [][PureNext]_vars

(***************************************************************************)
(* Specification of the command layer: every step is one call of a         *)
(* handler; those main dispatches to are called from its loop.             *)
(***************************************************************************)
CmdContactData ==
    {Bare(NoneV), Bare(Str(Bob)), Full(Ann),
     Data(Str(Bob), Str(PhoneShort), NoneV, NoneV, NoneV)}

CmdUpdates ==
    {NoData, Only("name", Str(Ann)), Only("phone", Str(PhoneShort)),
     Only("birthday", Str(BdayIso))}

CmdQueries == {NoneV, Str(<<>>), Str(Blank), Str(<<"A","N">>), Str(Hi)}

CmdNoteTexts == {NoneV, Str(Blank), Str(Hi)}

CmdNoteTags == {<<>>, <<<<WorkCap>>>>}

\* the handlers main calls, by the name recorded in last.op
LoopOps ==
    {"add_contact", "list_contacts", "search_contacts", "cmd_add_note",
     "list_notes", "search_notes", "global_search"}

CommandOps == LoopOps \cup {"edit_contact", "delete_contact",
                            "cmd_edit_note", "cmd_delete_note"}

\* the while loop of main is at input("> ")
AtPrompt == last.op \in LoopOps => result[2].loop = "prompt"

\* the state a handler leaves: of a contacts handler, of a notes handler,
\* of a handler that only reads
ContactsDone(o) ==
    [err |-> o.err, contacts |-> o.contacts, notes |-> notes,
     disk |-> o.disk, nextId |-> o.nextId, saved |-> o.saved]

NotesDone(o, nid) ==
    [err |-> o.err, contacts |-> contacts, notes |-> o.notes,
     disk |-> o.disk, nextId |-> nid, saved |-> o.saved]

Asked(e) ==
    [err |-> e, contacts |-> contacts, notes |-> notes, disk |-> disk,
     nextId |-> nextId, saved |-> FALSE]

\* one call of a handler, w the state its body leaves and extra what the
\* step records besides the returned string
Command(op, id, data, text, tags, w, extra) ==
    /\ calls < MaxCalls
    /\ AtPrompt
    /\ calls' = calls + 1
    /\ contacts' = w.contacts
    /\ notes' = w.notes
    /\ disk' = w.disk
    /\ nextId' = w.nextId
    /\ last' = Call(op, id, data, text, tags, w.err, w.saved)
    /\ result' = IF op \in LoopOps
                 THEN <<Handled(w.err), main(Handled(w.err))>> \o extra
                 ELSE <<Handled(w.err)>>

CmdAddContact ==
    \E data \in CmdContactData :
        Command("add_contact", 0, data, <<>>, <<>>,
                ContactsDone(add_contact(data)), <<>>)

CmdEditContact ==
    \E id \in CmdIds, kwargs \in CmdUpdates :
        Command("edit_contact", id, kwargs, <<>>, <<>>,
                ContactsDone(edit_contact(id, kwargs)), <<>>)

CmdDeleteContact ==
    \E id \in CmdIds :
        Command("delete_contact", id, NoData, <<>>, <<>>,
                ContactsDone(delete_contact(id)), <<>>)

CmdSearchContacts ==
    \E query \in CmdQueries \ {NoneV} :
        Command("search_contacts", 0, NoData, query, <<>>,
                Asked(search_contacts(query.s)), <<>>)

CmdListContacts ==
    Command("list_contacts", 0, NoData, <<>>, <<>>, Asked(list_contacts),
            <<>>)

CmdAddNote ==
    \E text \in CmdNoteTexts, tags \in CmdNoteTags :
        LET o == add_note(text, tags)
        IN  Command("cmd_add_note", 0, NoData, text, tags,
                    NotesDone(o, IF o.err = "" THEN nextId + 1 ELSE nextId),
                    <<>>)

CmdEditNote ==
    \E id \in CmdIds, text \in CmdNoteTexts, tags \in CmdNoteTags :
        Command("cmd_edit_note", id, NoData, text, tags,
                NotesDone(edit_note(id, text, tags), nextId), <<>>)

CmdDeleteNote ==
    \E id \in CmdIds :
        Command("cmd_delete_note", id, NoData, <<>>, <<>>,
                NotesDone(delete_note(id), nextId), <<>>)

CmdSearchNotes ==
    \E query \in CmdQueries \ {NoneV} :
        Command("search_notes", 0, NoData, query, <<>>, Asked(""),
                <<search_notes(query.s)>>)

CmdListNotes ==
    Command("list_notes", 0, NoData, <<>>, <<>>, Asked(""), <<list_notes>>)

GlobalSearch ==
    \E query \in CmdQueries :
        LET o == global_search(query)
        IN  Command("global_search", 0, NoData, query, <<>>, Asked(o.err),
                    <<o>>)

CommandNext ==
    \/ CmdAddContact
    \/ CmdEditContact
    \/ CmdDeleteContact
    \/ CmdSearchContacts
    \/ CmdListContacts
    \/ CmdAddNote
    \/ CmdEditNote
    \/ CmdDeleteNote
    \/ CmdSearchNotes
    \/ CmdListNotes
    \/ GlobalSearch

CommandSpec == Init /\ [][CommandNext]_vars

(***************************************************************************)
(* Specification of get_all: contacts are added and deleted, a caller      *)
(* takes the list get_all returns and changes it, and asks again.          *)
(***************************************************************************)
\* what a caller does to a list: append an object, remove the first
\* element, reverse
ListChanges == {"append", "remove", "reverse"}

Changed(items, how) ==
    IF how = "append" THEN Append(items, NoContact)
    ELSE IF how = "remove" THEN (IF items = <<>> THEN items ELSE Tail(items))
    ELSE [i \in 1..Len(items) |-> items[Len(items) + 1 - i]]

Query(op, id, r) ==
    /\ calls < MaxCalls
    /\ calls' = calls + 1
    /\ last' = Call(op, id, NoData, <<>>, <<>>, "", FALSE)
    /\ result' = r
    /\ UNCHANGED <<contacts, notes, disk, nextId>>

GetAll == Query("get_all", 0, <<get_all>>)

GetById == \E id \in Ids : Query("get_by_id", id, get_by_id(id))

\* the caller changes the list object get_all returned; the service's
\* list changes with it exactly when it is the same object
ChangeReturned ==
    \E how \in ListChanges :
        LET items == Changed(result[1].items, how) IN
        /\ calls < MaxCalls
        /\ last.op \in {"get_all", "change_returned"}
        /\ calls' = calls + 1
        /\ last' = Call("change_returned", 0, NoData, <<how>>, <<>>, "", FALSE)
        /\ result' = <<[result[1] EXCEPT !.items = items]>>
        /\ contacts' = IF result[1].live THEN items ELSE contacts
        /\ UNCHANGED <<notes, disk, nextId>>

SnapshotNext ==
    \/ Add
    \/ Delete
    \/ GetAll
    \/ GetById
    \/ ChangeReturned

SnapshotSpec == Init /\ [][SnapshotNext]_vars

(***************************************************************************)
(* Vocabulary of the properties.                                           *)
(***************************************************************************)
ValidationErrors ==
    {"ValueError", "InvalidPhoneError", "InvalidEmailError",
     "InvalidBirthdayError"}

\* two names are the same name: equal ignoring case and surrounding
\* whitespace
SameName(a, b) == Lower(Strip(a)) = Lower(Strip(b))

\* a str with something in it besides whitespace
NonEmpty(v) == v.k = "str" /\ Strip(v.s) # <<>>

\* a non-empty value that is not a phone / an email / a date
MalformedPhone(v) == NonEmpty(v) /\ ~is_phone(v.s)
MalformedEmail(v) == NonEmpty(v) /\ ~is_email(v.s)
MalformedBirthday(v) ==
    /\ NonEmpty(v)
    /\ ~strptime(Strip(v.s), ".").ok
    /\ ~strptime(Strip(v.s), "-").ok

Malformed(data) ==
    \/ MalformedPhone(data.phone)
    \/ MalformedEmail(data.email)
    \/ MalformedBirthday(data.birthday)

\* the ids of the collection
ContactIds == {contacts[i].id : i \in 1..Len(contacts)}

\* the persisted contacts are the serialization of the collection
PersistedAgree ==
    /\ \A i \in 1..Len(contacts) : ~ToDictRaises(contacts[i])
    /\ disk.contacts = [i \in 1..Len(contacts) |-> to_dict(contacts[i])]

(***************************************************************************)
(* C1: after any sequence of add, update, patch and delete calls, no two   *)
(* contacts of the collection have names that are equal ignoring case and  *)
(* surrounding whitespace.                                                 *)
(***************************************************************************)
C1_UniqueNames ==
    \A i, j \in 1..Len(contacts) :
        i # j => ~SameName(contacts[i].name, contacts[j].name)

\* a rename to another contact's name (in another case) was refused with
\* two contacts in the collection
C1_Witness ==
    /\ Len(contacts) = 2
    /\ last.op \in {"patch", "update"}
    /\ last.data.name = Str(AnnLowerSp)
    /\ last.err = "DuplicateContactError"

(***************************************************************************)
(* C2 (as claimed): every contact has a non-empty trimmed name, a phone    *)
(* that is absent or exactly 10 digits, and an email that is absent or a   *)
(* lower-cased, trimmed string matching the email pattern.                 *)
(***************************************************************************)
C2_FieldsValid ==
    \A i \in 1..Len(contacts) :
        LET c == contacts[i] IN
        /\ c.name # <<>> /\ Strip(c.name) = c.name
        /\ c.phone # <<>> =>
              Len(c.phone[1]) = PhoneDigits /\ IsDigits(c.phone[1])
        /\ c.email # <<>> =>
              /\ Lower(c.email[1]) = c.email[1]
              /\ Strip(c.email[1]) = c.email[1]
              /\ email_pattern(c.email[1])

(***************************************************************************)
(* C3 (as claimed): a patch of an existing contact whose phone, email or   *)
(* birthday value is non-empty but malformed fails with a validation error *)
(* and the malformed value is not stored.                                  *)
(***************************************************************************)
C3_PatchRevalidates ==
    (last.op = "patch" /\ last.id \in ContactIds /\ Malformed(last.data)) =>
        LET c == contacts[_find_by_id(last.id)]
            u == last.data
        IN  /\ last.err \in ValidationErrors
            /\ MalformedPhone(u.phone) => c.phone # <<Strip(u.phone.s)>>
            /\ MalformedEmail(u.email) => c.email # <<Strip(u.email.s)>>
            /\ MalformedBirthday(u.birthday) =>
                  c.birthday # <<BirthdayStr(Strip(u.birthday.s))>>

(***************************************************************************)
(* C4 (as claimed): a call that raises leaves the collection exactly as it *)
(* was, and after every call the collection and the persisted contacts     *)
(* agree.                                                                  *)
(***************************************************************************)
C4_Atomic ==
    [][(last'.op \in {"add", "update", "patch", "delete"}) =>
          /\ last'.err # "" => contacts' = contacts
          /\ PersistedAgree']_vars

(***************************************************************************)
(* C5: when a ContactsService or NotesService mutation returns, the        *)
(* persisted collection of that kind is the serialization of the service's *)
(* collection, in the same order.                                          *)
(***************************************************************************)
C5_PersistedOnReturn ==
    /\ (last.op \in {"add", "update", "patch", "delete"} /\ last.err = "")
          => PersistedAgree
    /\ (last.op \in {"notes_add", "notes_update", "notes_delete"}
          /\ last.err = "")
          => disk.notes = [i \in 1..Len(notes) |-> note_to_dict(notes[i])]

\* a patch returned with two contacts in the collection
C5_Witness ==
    /\ last.op = "patch"
    /\ last.err = ""
    /\ last.data.name = Str(Bob)
    /\ Len(contacts) = 2

(***************************************************************************)
(* C6: add fails with DuplicateContactError whenever the supplied name     *)
(* equals an existing contact's name ignoring case and surrounding         *)
(* whitespace, and then the collection and the persisted contacts are      *)
(* unchanged.                                                              *)
(***************************************************************************)
C6_AddDuplicate ==
    [][(/\ last'.op = "add"
        /\ last'.data.name.k = "str"
        /\ \E i \in 1..Len(contacts) :
              SameName(contacts[i].name, last'.data.name.s))
       => (/\ last'.err = "DuplicateContactError"
           /\ contacts' = contacts
           /\ disk' = disk)]_vars

\* "Ann" is in the collection and add("ann ") was refused
C6_Witness ==
    /\ last.op = "add"
    /\ last.data.name = Str(AnnLowerSp)
    /\ last.err = "DuplicateContactError"
    /\ \E i \in 1..Len(contacts) : contacts[i].name = Ann

(***************************************************************************)
(* C7: update, patch and delete with an id that is not in the collection   *)
(* fail with ContactNotFoundError, leave the collection unchanged and make *)
(* no persistence call.                                                    *)
(***************************************************************************)
C7_NotFound ==
    [][(last'.op \in {"update", "patch", "delete"}
        /\ last'.id \notin ContactIds)
       => (/\ last'.err = "ContactNotFoundError"
           /\ contacts' = contacts
           /\ ~last'.saved
           /\ disk' = disk)]_vars

\* a call on the id of a deleted contact, with another contact left
C7_Witness ==
    /\ last.op \in {"update", "patch", "delete"}
    /\ last.id # 0
    /\ last.id \notin ContactIds
    /\ last.err = "ContactNotFoundError"
    /\ contacts # <<>>

(***************************************************************************)
(* C8: an add or update whose phone, email or birthday is malformed raises *)
(* before any contact is appended or replaced: the collection and the      *)
(* persisted contacts are unchanged.                                       *)
(***************************************************************************)
C8_ConstructionAtomic ==
    [][(last'.op \in {"add", "update"} /\ Malformed(last'.data))
       => (/\ last'.err # ""
           /\ contacts' = contacts
           /\ disk' = disk)]_vars

\* an update of an existing contact was refused for its malformed field
C8_Witness ==
    /\ last.op = "update"
    /\ last.id \in ContactIds
    /\ Malformed(last.data)
    /\ last.err \in ValidationErrors

(***************************************************************************)
(* C9 (as claimed): for every existing contact and every patch with valid  *)
(* values, patch succeeds, each supplied field takes its new value (or     *)
(* becomes absent when the supplied value is empty), and every field not   *)
(* named, the id and the position are unchanged.                           *)
(***************************************************************************)
\* the updates are valid for the contact with this id
ValidUpdates(id, u) ==
    /\ u.name.k # "missing" =>
          /\ NonEmpty(u.name)
          /\ \A i \in 1..Len(contacts) :
                contacts[i].id # id => ~SameName(contacts[i].name, u.name.s)
    /\ ~MalformedPhone(u.phone)
    /\ ~MalformedEmail(u.email)
    /\ ~MalformedBirthday(u.birthday)

\* the field holds the normalized value nv of a valid value v, or nothing
\* when v is empty
Takes(old, new, v, nv) ==
    IF v.k = "missing" THEN new = old
    ELSE IF ~NonEmpty(v) THEN new = <<>>
    ELSE new = <<nv>>

BirthdayOf(s) == BirthdayInit(s).v
EmailOf(s) == Lower(Strip(s))

C9_PatchApplies ==
    [][(last'.op = "patch" /\ last'.id \in ContactIds
        /\ ValidUpdates(last'.id, last'.data))
       => LET i == _find_by_id(last'.id)
              u == last'.data
              old == contacts[i]
          IN  /\ last'.err = ""
              /\ Len(contacts') = Len(contacts)
              /\ \A j \in 1..Len(contacts) : j # i => contacts'[j] = contacts[j]
              /\ LET new == contacts'[i] IN
                 /\ new.id = old.id
                 /\ new.name = IF u.name.k = "missing" THEN old.name
                               ELSE Strip(u.name.s)
                 /\ Takes(old.phone, new.phone, u.phone,
                          normalize_phone(u.phone.s))
                 /\ Takes(old.email, new.email, u.email, EmailOf(u.email.s))
                 /\ Takes(old.address, new.address, u.address,
                          Strip(u.address.s))
                 /\ Takes(old.birthday, new.birthday, u.birthday,
                          BirthdayOf(u.birthday.s))
      ]_vars

(***************************************************************************)
(* C10: update on an existing id whose new name does not collide with a    *)
(* different contact replaces the contact at the same position with one    *)
(* built only from the supplied data and with the same id; when the name   *)
(* equals a different contact's name ignoring case it fails with           *)
(* DuplicateContactError; re-using the contact's own name is allowed.      *)
(***************************************************************************)
Collides(id, name) ==
    \E j \in 1..Len(contacts) :
        contacts[j].id # id /\ SameName(contacts[j].name, name)

\* the optional field is absent when no value is supplied and holds the
\* normalized value nv otherwise
Built(field, v, nv) == IF Truthy(v) THEN field = <<nv>> ELSE field = <<>>

C10_UpdateReplaces ==
    [][(last'.op = "update" /\ last'.id \in ContactIds
        /\ last'.data.name.k = "str")
       => LET i == _find_by_id(last'.id)
              d == last'.data
          IN  IF Collides(last'.id, d.name.s)
              THEN last'.err = "DuplicateContactError" /\ contacts' = contacts
              ELSE /\ last'.err # "DuplicateContactError"
                   /\ (NonEmpty(d.name) /\ ~Malformed(d)) =>
                         /\ Len(contacts') = Len(contacts)
                         /\ \A j \in 1..Len(contacts) :
                               j # i => contacts'[j] = contacts[j]
                         /\ contacts'[i].id = last'.id
                         /\ contacts'[i].name = Strip(d.name.s)
                         /\ Built(contacts'[i].phone, Get(d.phone),
                                  normalize_phone(d.phone.s))
                         /\ Built(contacts'[i].email, Get(d.email),
                                  EmailOf(d.email.s))
                         /\ Built(contacts'[i].address, Get(d.address),
                                  Strip(d.address.s))
                         /\ Built(contacts'[i].birthday, Get(d.birthday),
                                  BirthdayOf(d.birthday.s))
      ]_vars

\* the first of two contacts, which had optional fields, was replaced by a
\* bare contact that keeps its own name in another case
C10_Witness ==
    /\ last.op = "update"
    /\ last.err = ""
    /\ last.data = Bare(Str(AnnLowerSp))
    /\ Len(contacts) = 2
    /\ contacts[1].id = last.id
    /\ contacts[1].phone = <<>>

(***************************************************************************)
(* C11: contact ids are unique and immutable.  After every call no two     *)
(* contacts of the collection share an id, and the contacts that stay in   *)
(* the collection keep their ids: update and patch leave the sequence of   *)
(* ids as it is, delete only takes one id out, add only appends the fresh  *)
(* one.                                                                    *)
(***************************************************************************)
IdsOf(cs) == [i \in 1..Len(cs) |-> cs[i].id]

C11_IdsUniqueImmutable ==
    [][/\ \A i, j \in 1..Len(contacts') :
              i # j => contacts'[i].id # contacts'[j].id
       /\ last'.op \in {"update", "patch", "notes_add", "notes_update",
                        "notes_delete"}
             => IdsOf(contacts') = IdsOf(contacts)
       /\ last'.op = "add"
             => IdsOf(contacts') \in {IdsOf(contacts),
                                     Append(IdsOf(contacts), nextId)}
       /\ last'.op = "delete"
             => IdsOf(contacts') \in
                  {IdsOf(contacts)}
                  \cup {Remove(IdsOf(contacts), i) : i \in 1..Len(contacts)}
      ]_vars

\* the first of two contacts was rebuilt by update and both still have
\* the ids add gave them
C11_Witness ==
    /\ last.op = "update"
    /\ last.err = ""
    /\ last.id = 1
    /\ IdsOf(contacts) = <<1, 2>>
    /\ contacts[1].name = Bob

(***************************************************************************)
(* C12: a search without query returns a contact only if every supplied    *)
(* filter (name, phone, email) is, ignoring case, a part of the contact's  *)
(* field, so a contact without a phone is not returned for a phone filter  *)
(* and a contact without an email is not returned for an email filter;     *)
(* with no query and no filter the result is empty.                        *)
(***************************************************************************)
\* the optional field is present and contains s ignoring case
FieldHas(field, s) == field # <<>> /\ Contains(Lower(field[1]), Lower(s))

C12_AllFiltersMatch ==
    (last.op = "search" /\ ~Truthy(last.data.query))
    => LET a == last.data IN
       /\ \A i \in 1..Len(result) :
             /\ Truthy(a.name) => FieldHas(<<result[i].name>>, a.name.s)
             /\ Truthy(a.phone) => FieldHas(result[i].phone, a.phone.s)
             /\ Truthy(a.email) => FieldHas(result[i].email, a.email.s)
       /\ (~Truthy(a.name) /\ ~Truthy(a.phone) /\ ~Truthy(a.email))
             => result = <<>>

(***************************************************************************)
(* C13: a search with a non-empty query returns exactly the contacts for   *)
(* which the lower-cased query is a part of the lower-cased name, phone,   *)
(* email or address, whatever name, phone and email filters are passed     *)
(* with it.                                                                *)
(***************************************************************************)
QueryHits(q) ==
    {c \in Range(contacts) :
        \/ FieldHas(<<c.name>>, q)
        \/ FieldHas(c.phone, q)
        \/ FieldHas(c.email, q)
        \/ FieldHas(c.address, q)}

C13_QueryExact ==
    (last.op = "search" /\ Truthy(last.data.query))
    => Range(result) = QueryHits(last.data.query.s)

(***************************************************************************)
(* C14: for every combination of arguments the list search returns is a    *)
(* subsequence of the collection: the contacts it holds are in collection  *)
(* order and each is there at most once.                                   *)
(***************************************************************************)
IsSubsequence(r, cs) ==
    /\ Len(r) <= Len(cs)
    /\ \E f \in [1..Len(r) -> 1..Len(cs)] :
          /\ \A i \in 1..Len(r) : r[i] = cs[f[i]]
          /\ \A i, j \in 1..Len(r) : i < j => f[i] < f[j]

C14_CollectionOrder ==
    last.op = "search" => IsSubsequence(result, contacts)

\* a query and a name filter together returned both contacts, one for the
\* query and one for the filter
C14_Witness ==
    /\ last.op = "search"
    /\ Truthy(last.data.query)
    /\ Truthy(last.data.name)
    /\ Len(contacts) = 2
    /\ result = contacts
    /\ QueryHits(last.data.query.s) = {contacts[2]}

(***************************************************************************)
(* C15: the lookahead reports a contact that has a birthday exactly when   *)
(* the next occurrence of the birthday is 0..daysAhead days after today:   *)
(* when one of the days today .. today + daysAhead has the birthday's      *)
(* month and day, or is Feb 28 of a non-leap year for a Feb 29 birthday.   *)
(***************************************************************************)
\* the day with ordinal n is an occurrence of the birthday
OccursOn(birthday, n) ==
    \E y \in {birthday[1] + k : k \in 0..200} :
        \/ /\ birthday[3] <= DaysInMonth(y, birthday[2])
           /\ n = toordinal(<<y, birthday[2], birthday[3]>>)
        \/ /\ birthday[3] > DaysInMonth(y, birthday[2])
           /\ n = toordinal(<<y, 2, 28>>)

InWindow(birthday, days_ahead, today) ==
    \E k \in 0..days_ahead : OccursOn(birthday, toordinal(today) + k)

C15_UpcomingWindow ==
    (last.op = "upcoming" /\ last.data.days_ahead \in 0..BIRTHDAYS_MAX_DAYS)
    => /\ last.err = ""
       /\ Range(result) =
             {c \in Range(contacts) :
                 /\ c.birthday # <<>>
                 /\ InWindow(c.birthday[1].date, last.data.days_ahead,
                             last.data.today)}

(***************************************************************************)
(* C16: the lookahead rejects a daysAhead that is negative or greater      *)
(* than BIRTHDAYS_MAX_DAYS with a user-input error and returns no result.  *)
(***************************************************************************)
C16_RejectsOutOfRange ==
    (/\ last.op \in {"upcoming", "is_birthday_coming"}
     /\ last.data.days_ahead \notin 0..BIRTHDAYS_MAX_DAYS)
    => last.err \in ValidationErrors /\ result = <<>>

(***************************************************************************)
(* C17: after any sequence of add_note, edit_note and delete_note calls    *)
(* every note of the collection has a text that is not empty after         *)
(* trimming, and an add_note or edit_note with an empty or whitespace-only *)
(* text returns an error message and changes neither the collection nor    *)
(* the stored document.                                                    *)
(***************************************************************************)
\* no text, or a text with nothing in it besides whitespace
EmptyText(v) == ~Truthy(v) \/ Strip(v.s) = <<>>

C17_TextNeverEmpty ==
    /\ [](\A i \in 1..Len(notes) : Strip(notes[i].text) # <<>>)
    /\ [][(\/ last'.op = "add_note" /\ EmptyText(last'.text)
           \/ last'.op = "edit_note" /\ last'.text.k = "str"
                /\ EmptyText(last'.text))
          => (last'.err # "" /\ notes' = notes /\ disk' = disk)
         ]_vars

\* an edit of an existing note to a whitespace-only text was refused
C17_Witness ==
    /\ last.op = "edit_note"
    /\ last.text = Str(Blank)
    /\ find(last.id) # 0
    /\ last.err = "ValueError"
    /\ disk.notes # <<>>

(***************************************************************************)
(* C18: NotesService.update on an existing note replaces whichever of      *)
(* text and tags is supplied and leaves the other one, the id, the         *)
(* position and every other note as they are; on an id that is not in the  *)
(* collection it fails with the not-found error and changes neither the    *)
(* collection nor the stored document.                                     *)
(***************************************************************************)
C18_UpdateReplacesSupplied ==
    [][last'.op = "notes_update"
       => LET i == find(last'.id) IN
          IF i = 0
          THEN last'.err = "ValueError" /\ notes' = notes /\ disk' = disk
          ELSE /\ last'.err = ""
               /\ Len(notes') = Len(notes)
               /\ \A j \in 1..Len(notes) : j # i => notes'[j] = notes[j]
               /\ notes'[i].id = notes[i].id
               /\ notes'[i].text = IF last'.text = <<>> THEN notes[i].text
                                   ELSE Strip(last'.text[1])
               /\ notes'[i].tags = IF last'.tags = <<>> THEN notes[i].tags
                                   ELSE last'.tags[1]
      ]_vars

\* the text alone of the first of two notes was replaced, and the note
\* still has its tag
C18_Witness ==
    /\ last.op = "notes_update"
    /\ last.err = ""
    /\ last.text = <<Hi>>
    /\ last.tags = <<>>
    /\ Len(notes) = 2
    /\ notes[1].id = last.id
    /\ notes[1].tags = <<Work>>
    /\ notes[2].text # Hi

(***************************************************************************)
(* C19: find_by_tags returns, in collection order, exactly the notes that  *)
(* have a tag equal ignoring case to one of the query tags (when tags are  *)
(* supplied) and whose text contains the query text ignoring case (when    *)
(* text is supplied); with neither it returns all the notes.               *)
(***************************************************************************)
Wanted(n, tags, text) ==
    /\ (tags # <<>> /\ tags[1] # <<>>)
          => \E q \in Range(tags[1]), t \in Range(n.tags) :
                Lower(q) = Lower(t)
    /\ Truthy(text) => Contains(Lower(n.text), Lower(text.s))

C19_FindByTags ==
    last.op = "find_by_tags"
    => LET Keep(n) == Wanted(n, last.tags, last.text)
       IN  result = SelectSeq(notes, Keep)

\* tags=["work"] returned the note tagged "Work" and not the one tagged
\* "home"
C19_Witness ==
    /\ last.op = "find_by_tags"
    /\ last.tags = <<<<Work>>>>
    /\ Len(notes) = 2
    /\ notes[1].tags = <<Home>>
    /\ notes[2].tags = <<WorkCap>>
    /\ result = <<notes[2]>>

(***************************************************************************)
(* C20: under any interleaving of contact and note calls on the shared     *)
(* store, a contact call leaves the stored notes as they were last stored  *)
(* and a note call leaves the stored contacts as they were last stored;    *)
(* a call that saved has stored its own collection next to them.           *)
(***************************************************************************)
C20_SavesKeepOtherKind ==
    [][/\ last'.op \in {"add", "update", "patch", "delete"}
            => /\ disk'.notes = disk.notes
               /\ (last'.saved /\ last'.err = "")
                    => disk'.contacts =
                         [i \in 1..Len(contacts') |-> to_dict(contacts'[i])]
       /\ last'.op \in {"notes_add", "notes_update", "notes_delete"}
            => /\ disk'.contacts = disk.contacts
               /\ last'.saved
                    => disk'.notes =
                         [i \in 1..Len(notes') |-> note_to_dict(notes'[i])]
      ]_vars

\* a contact was patched after a note was added: the document holds both
C20_Witness ==
    /\ last.op = "patch"
    /\ last.saved /\ last.err = ""
    /\ Len(disk.notes) = 1
    /\ Len(disk.contacts) = 1
    /\ disk.contacts[1].name = Bob

(***************************************************************************)
(* C21: round trip.  For every Contact and Note that can be constructed,   *)
(* from_dict(to_dict(x)) succeeds and has the id and the field values of   *)
(* x, so that serializing it again gives to_dict(x); contacts with a       *)
(* whitespace-only address or without optional fields included.            *)
(***************************************************************************)
C21_RoundTrip ==
    (calls = 1 /\ last.op \in {"Contact", "Note"})
    => /\ result[2].err = ""
       /\ last.op = "Contact"
             => /\ result[2].v = ContactInit(last.data, nextId).v
                /\ to_dict(result[2].v) = result[1]
       /\ last.op = "Note"
             => /\ result[2].v.id = nextId
                /\ result[2].v.text = Strip(last.text)
                /\ note_to_dict(result[2].v) = result[1]


\* local@domain.tld with a top-level domain of lo to hi letters
EmailForm(s, lo, hi) ==
    \E at \in 2..Len(s), dot \in 1..Len(s) :
        /\ s[at] = "@"
        /\ dot >= at + 2
        /\ s[dot] = "."
        /\ Len(s) - dot \in lo..hi
        /\ \A i \in 1..(at - 1) : s[i] \in EmailLocalChars
        /\ \A i \in (at + 1)..(dot - 1) : s[i] \in EmailDomainChars
        /\ \A i \in (dot + 1)..Len(s) : s[i] \in Letters

\* C22: email validation fails for every string that is not
\* local@domain.tld with a top-level domain of 2 to 6 letters, and for
\* every string of that form it succeeds and Email stores the trimmed,
\* lower-cased value.
C22_EmailForm ==
    (calls = 1 /\ last.op = "Email")
    => IF EmailForm(Strip(last.text), 2, 6)
       THEN /\ result[1]
            /\ result[2] = Ok(Lower(Strip(last.text)))
       ELSE /\ ~result[1]
            /\ result[2].err # ""

\* s is ten decimal digits with characters of PhoneSeps put in
TenDigitsWithSeps(s) ==
    /\ \A i \in 1..Len(s) : s[i] \in Digits \cup PhoneSeps
    /\ Cardinality({i \in 1..Len(s) : s[i] \in Digits}) = 10

IsDigitChar(c) == c \in Digits

\* C23: for ten decimal digits with any formatting characters (space,
\* hyphen, parentheses, plus) put in anywhere, is_phone accepts and
\* normalize_phone returns the ten digits in order; normalize_phone of a
\* normalized value is that value, for every input.
C23_PhoneNormalForm ==
    (calls = 1 /\ last.op = "is_phone")
    => /\ result[3] = result[2]
       /\ TenDigitsWithSeps(last.text)
          => /\ result[1]
             /\ result[2] = SelectSeq(last.text, IsDigitChar)

C23_Witness ==
    /\ calls = 1
    /\ last.op = "is_phone"
    /\ Len(last.text) = 12
    /\ last.text[1] = "+"
    /\ last.text[5] = ")"
    /\ result[1]
    /\ result[2] = PhonePlain

\* the date the years before today, as a day number
YearsBefore(today, years) ==
    toordinal(<<today[1] - years, today[2], today[3]>>)

\* C24: parse_birthday fails for every well-formed date after today or
\* more than 150 years before today, and returns every well-formed date
\* from 150 years before today up to today.
C24_BirthdayRange ==
    (calls = 1 /\ last.op = "parse_birthday"
       /\ FirstFormat(Strip(last.text)).ok)
    => LET d == FirstFormat(Strip(last.text)).date
           today == last.data.today
       IN  IF \/ toordinal(d) > toordinal(today)
              \/ toordinal(d) < YearsBefore(today, 150)
           THEN ~result[1].ok
           ELSE result[1] = [ok |-> TRUE, date |-> d]

ContactOps == {"add", "update", "patch", "delete"}

\* C28: after add, update, patch and delete calls that returned,
\* FileStore.load on the persisted document gives a contact list with the
\* ids, field values and order of the collection in memory.  Stated step
\* by step: a call that returns keeps the reloaded list equal to the
\* collection.
C28_ReloadSame ==
    [][(/\ last'.op \in ContactOps
        /\ last'.err = ""
        /\ load(disk)[1] = contacts)
       => load(disk')[1] = contacts']_vars

\* C29: delete on the id of a contact removes exactly that contact: the
\* others keep their fields and their order, the collection is shorter
\* by one, and no contact has the id afterwards (get_by_id returns None).
C29_DeleteRemovesOne ==
    [][(last'.op = "delete" /\ last'.id \in ContactIds)
       => LET i == CHOOSE k \in 1..Len(contacts) : contacts[k].id = last'.id
          IN  /\ Len(contacts') = Len(contacts) - 1
              /\ \A k \in 1..Len(contacts') :
                     contacts'[k] = IF k < i THEN contacts[k]
                                    ELSE contacts[k + 1]
              /\ \A k \in 1..Len(contacts') : contacts'[k].id # last'.id
      ]_vars

\* the first of two contacts was deleted and the second is what is left
C29_Witness ==
    /\ last.op = "delete"
    /\ last.err = ""
    /\ last.id = 1
    /\ IdsOf(contacts) = <<2>>


\* C25: every handler of ContactsCommand and NotesCommand returns a
\* string, the error message when its body failed, and lets no exception
\* out; main prints the string and is back at its prompt, where the next
\* command is taken.
C25_HandlersReturn ==
    /\ []((last.op \in LoopOps /\ calls < MaxCalls) => ENABLED CommandNext)
    /\ [][last'.op \in CommandOps \ {"global_search"}
          => /\ result'[1].raised = ""
             /\ result'[1].text = IF last'.err = "" THEN "message"
                                  ELSE "Error"
             /\ last'.op \in LoopOps
                => result'[2] = [printed |-> result'[1].text,
                                 loop |-> "prompt"]]_vars

\* the second command of a session failed in the service
C25_Witness ==
    /\ calls = 2
    /\ last.op = "add_contact"
    /\ last.err = "DuplicateContactError"
    /\ result[1] = [text |-> "Error", raised |-> ""]
    /\ result[2].loop = "prompt"

\* C26: global_search with a query that is empty after trimming returns
\* its error message, raises nothing, does not call the search service
\* and leaves the collections and the persisted document as they were.
C26_EmptyQuery ==
    [][(last'.op = "global_search" /\ EmptyText(last'.text))
       => /\ result'[1] = [text |-> "Error", raised |-> ""]
          /\ last'.err = "EmptyQuery"
          /\ ~result'[3].searched
          /\ ~last'.saved
          /\ UNCHANGED <<contacts, notes, disk>>]_vars

\* a blank query with a contact and a note to be found
C26_Witness ==
    /\ last.op = "global_search"
    /\ last.text = Str(Blank)
    /\ contacts # <<>>
    /\ notes # <<>>
    /\ result[1].text = "Error"
    /\ ~result[3].searched

\* C27: get_all returns a snapshot: it holds the contacts of the
\* collection, and appending to, removing from or reordering the returned
\* list leaves the collection, and so what get_all and get_by_id return
\* afterwards, as it was.
C27_GetAllSnapshot ==
    [][/\ last'.op = "change_returned"
          => contacts' = contacts /\ disk' = disk
       /\ last'.op = "get_all"
          => result'[1].items = contacts /\ contacts' = contacts
       /\ last'.op = "get_by_id"
          => /\ contacts' = contacts
             /\ \A i \in 1..Len(contacts) :
                    contacts[i].id = last'.id => result' = <<contacts[i]>>
             /\ last'.id \notin ContactIds => result' = <<>>]_vars

\* the only element was removed from the returned list and the
\* collection still has it
C27_Witness ==
    /\ last.op = "change_returned"
    /\ last.text = <<"remove">>
    /\ result[1].items = <<>>
    /\ Len(contacts) = 1

====
